---- MODULE Spec2Model ----
(***************************************************************************)
(* Model of recognition/arcface_torch/backbones/mobilefacenet2.py: the     *)
(* MobileFaceNet2 face-embedding backbone.  The layer graph is modelled as *)
(* nested records (one per torch module), a tensor as its shape and dtype, *)
(* and each module's forward as the shape/dtype transformation the torch   *)
(* layer performs, including the errors it raises.                         *)
(*                                                                         *)
(* Python indexes blocks from 0, TLA+ sequences from 1: blocks[0] of the   *)
(* source is blocks[1] here, self.layers[0] is layers[1], and so on.       *)
(***************************************************************************)
EXTENDS Integers, Sequences, FiniteSets, TLC

VARIABLES
    state,                \* "new" before __init__ has run, "built" after
    args,                 \* the arguments __init__ was called with
    fp16,                 \* self.fp16
    scale,                \* self.scale
    layers,               \* self.layers (the ModuleList)
    conv_sep,             \* self.conv_sep
    features,             \* self.features
    init_calls,           \* how often _initialize_weights has run
    training,             \* Module.training (True after construction)
    autocast,             \* the ambient autocast state forward is called in
    num_batches_tracked,  \* the stem BatchNorm2d's num_batches_tracked buffer
    x,                    \* the argument of the latest forward call
    trace,                \* the stages the latest forward call invoked
    result,               \* what the latest forward call returned or raised
    eca                   \* an ECA block on concrete numbers (SpecECA)

vars == <<state, args, fp16, scale, layers, conv_sep, features, init_calls,
          training, autocast, num_batches_tracked, x, trace, result, eca>>

(***************************************************************************)
(* Bounds of the model.                                                    *)
(***************************************************************************)
MaxScale == 2         \* scale ranges over 1..MaxScale
MaxBlock0 == 2        \* blocks[0] ranges over 0..MaxBlock0
MaxBlock == 1         \* blocks[1..3] range over 0..MaxBlock
MaxFeatures == 2      \* num_features ranges over 1..MaxFeatures
MaxBatch == 2         \* N ranges over 1..MaxBatch
MaxTracked == 2       \* forward is called while num_batches_tracked is below it
SmallSize == 3        \* image sizes 1..SmallSize ...
MaxSize == 114        \* ... and MaxSize-SizeSpan..MaxSize
SizeSpan == 20

(***************************************************************************)
(* Leaf modules (torch.nn layers).  weight/bias hold how the parameter was *)
(* last initialised: "none" (no such parameter), "default" (by the layer's *)
(* own constructor), or the rule _initialize_weights applied.  visits      *)
(* counts the visits of _initialize_weights' loop.                         *)
(***************************************************************************)
\* a function on 1..n as a tuple
AsTuple(f) == <<>> \o f

Leaf(type, in_c, out_c, kernel, stride, padding, groups, weight, bias) ==
    [type |-> type, in_c |-> in_c, out_c |-> out_c, kernel |-> kernel,
     stride |-> stride, padding |-> padding, groups |-> groups,
     weight |-> weight, bias |-> bias, visits |-> 0]

Conv2d(in_c, out_c, kernel, stride, padding, groups) ==
    Leaf("Conv2d", in_c, out_c, kernel, stride, padding, groups, "default", "none")

BatchNorm2d(num_features) ==
    Leaf("BatchNorm2d", num_features, num_features, <<0, 0>>, <<0, 0>>, <<0, 0>>, 0,
         "default", "default")

BatchNorm1d(num_features) ==
    Leaf("BatchNorm1d", num_features, num_features, <<0, 0>>, <<0, 0>>, <<0, 0>>, 0,
         "default", "default")

PReLU(num_parameters) ==
    Leaf("PReLU", num_parameters, num_parameters, <<0, 0>>, <<0, 0>>, <<0, 0>>, 0,
         "default", "none")

HSwish ==
    Leaf("HSwish", 0, 0, <<0, 0>>, <<0, 0>>, <<0, 0>>, 0, "none", "none")

AdaptiveAvgPool2d(output_size) ==
    Leaf("AdaptiveAvgPool2d", 0, 0, output_size, <<0, 0>>, <<0, 0>>, 0, "none", "none")

Flatten ==
    Leaf("Flatten", 0, 0, <<0, 0>>, <<0, 0>>, <<0, 0>>, 0, "none", "none")

Sigmoid ==
    Leaf("Sigmoid", 0, 0, <<0, 0>>, <<0, 0>>, <<0, 0>>, 0, "none", "none")

Linear(in_features, out_features, bias) ==
    Leaf("Linear", in_features, out_features, <<0, 0>>, <<0, 0>>, <<0, 0>>, 0,
         "default", IF bias THEN "default" ELSE "none")

(***************************************************************************)
(* The blocks of the file, each with the layers its __init__ creates.      *)
(***************************************************************************)
ConvBlock(in_c, out_c, kernel, stride, padding, groups, use_hswish) ==
    [kind |-> "ConvBlock",
     layers |-> << Conv2d(in_c, out_c, kernel, stride, padding, groups),
                   BatchNorm2d(out_c),
                   IF use_hswish THEN HSwish ELSE PReLU(out_c) >>]

LinearBlock(in_c, out_c, kernel, stride, padding, groups) ==
    [kind |-> "LinearBlock",
     layers |-> << Conv2d(in_c, out_c, kernel, stride, padding, groups),
                   BatchNorm2d(out_c) >>]

ECA(in_c) ==
    [kind |-> "ECA",
     layers |-> << AdaptiveAvgPool2d(<<1, 1>>), Flatten, Linear(in_c, in_c, TRUE),
                   Sigmoid >>]

\* DepthWise with an ungrouped middle convolution
DepthWiseDense(in_c, out_c, residual, kernel, stride, padding, groups, use_hswish) ==
    [kind |-> "DepthWise",
     residual |-> residual,
     layers |-> << ConvBlock(in_c, groups, <<1, 1>>, <<1, 1>>, <<0, 0>>, 1, use_hswish),
                   ConvBlock(groups, groups, kernel, stride, padding, 1, use_hswish),
                   LinearBlock(groups, out_c, <<1, 1>>, <<1, 1>>, <<0, 0>>, 1) >>]

DepthWise(in_c, out_c, residual, kernel, stride, padding, groups, use_hswish) ==
    [kind |-> "DepthWise",
     residual |-> residual,
     layers |-> << ConvBlock(in_c, groups, <<1, 1>>, <<1, 1>>, <<0, 0>>, 1, use_hswish),
                   ConvBlock(groups, groups, kernel, stride, padding, groups, use_hswish),
                   LinearBlock(groups, out_c, <<1, 1>>, <<1, 1>>, <<0, 0>>, 1) >>]

Residual(c, num_block, groups, kernel, stride, padding, use_hswish) ==
    [kind |-> "Residual",
     layers |-> AsTuple([i \in 1..num_block |->
                    DepthWise(c, c, TRUE, kernel, stride, padding, groups, use_hswish)])]

\* GDC with the embedding size left at 512
GDCFixedWidth(embedding_size) ==
    [kind |-> "GDC",
     layers |-> << LinearBlock(512, 512, <<7, 7>>, <<1, 1>>, <<0, 0>>, 512),
                   Flatten,
                   Linear(512, 512, FALSE),
                   BatchNorm1d(512) >>]

GDC(embedding_size) ==
    [kind |-> "GDC",
     layers |-> << LinearBlock(512, 512, <<7, 7>>, <<1, 1>>, <<0, 0>>, 512),
                   Flatten,
                   Linear(512, embedding_size, FALSE),
                   BatchNorm1d(embedding_size) >>]

(***************************************************************************)
(* MobileFaceNet2.__init__: the layer graph.                               *)
(***************************************************************************)
Stem(s) ==
    ConvBlock(3, 64 * s, <<3, 3>>, <<2, 2>>, <<1, 1>>, 1, FALSE)

\* FirstStage choosing the ConvBlock for blocks[0] <= 1
FirstStageAtMostOne(blocks, s) ==
    IF blocks[1] <= 1
    THEN ConvBlock(64 * s, 64 * s, <<3, 3>>, <<1, 1>>, <<1, 1>>, 64, FALSE)
    ELSE Residual(64 * s, blocks[1], 128, <<3, 3>>, <<1, 1>>, <<1, 1>>, FALSE)

FirstStage(blocks, s) ==
    IF blocks[1] = 1
    THEN ConvBlock(64 * s, 64 * s, <<3, 3>>, <<1, 1>>, <<1, 1>>, 64, FALSE)
    ELSE Residual(64 * s, blocks[1], 128, <<3, 3>>, <<1, 1>>, <<1, 1>>, FALSE)

LaterStages(blocks, s) ==
    << ECA(64 * s),
       DepthWise(64 * s, 64 * s, FALSE, <<3, 3>>, <<2, 2>>, <<1, 1>>, 128, FALSE),
       Residual(64 * s, blocks[2], 128, <<3, 3>>, <<1, 1>>, <<1, 1>>, FALSE),
       DepthWise(64 * s, 128 * s, FALSE, <<3, 3>>, <<2, 2>>, <<1, 1>>, 256, FALSE),
       Residual(128 * s, blocks[3], 256, <<3, 3>>, <<1, 1>>, <<1, 1>>, TRUE),
       DepthWise(128 * s, 128 * s, FALSE, <<3, 3>>, <<2, 2>>, <<1, 1>>, 512, TRUE),
       Residual(128 * s, blocks[4], 256, <<3, 3>>, <<1, 1>>, <<1, 1>>, TRUE),
       ECA(128 * s) >>

BuildLayers(blocks, s) ==
    << Stem(s), FirstStage(blocks, s) >> \o LaterStages(blocks, s)

\* conv_sep built for the channel count of the earlier stages
ConvSepNarrow(s) ==
    ConvBlock(64 * s, 512, <<1, 1>>, <<1, 1>>, <<0, 0>>, 1, TRUE)

ConvSep(s) ==
    ConvBlock(128 * s, 512, <<1, 1>>, <<1, 1>>, <<0, 0>>, 1, TRUE)

(***************************************************************************)
(* MobileFaceNet2._initialize_weights: the rule chosen by isinstance, for  *)
(* every module self.modules() yields.  Containers match no branch.        *)
(***************************************************************************)
InitModule(m) ==
    IF m.type = "Conv2d"
    THEN [m EXCEPT !.weight = "kaiming_normal_fan_out",
                   !.bias = IF m.bias # "none" THEN "zeros" ELSE "none",
                   !.visits = @ + 1]
    ELSE IF m.type = "BatchNorm2d"
    THEN [m EXCEPT !.weight = "ones", !.bias = "zeros", !.visits = @ + 1]
    ELSE IF m.type = "Linear"
    THEN [m EXCEPT !.weight = "kaiming_normal_fan_out",
                   !.bias = IF m.bias # "none" THEN "zeros" ELSE "none",
                   !.visits = @ + 1]
    ELSE [m EXCEPT !.visits = @ + 1]

\* a ConvBlock, LinearBlock or ECA: a Sequential of leaf modules
InitBlock(b) ==
    [b EXCEPT !.layers = AsTuple([i \in DOMAIN b.layers |-> InitModule(b.layers[i])])]

InitDepthWise(d) ==
    [d EXCEPT !.layers = AsTuple([i \in DOMAIN d.layers |-> InitBlock(d.layers[i])])]

InitResidual(r) ==
    [r EXCEPT !.layers = AsTuple([i \in DOMAIN r.layers |-> InitDepthWise(r.layers[i])])]

InitGDC(g) ==
    [g EXCEPT !.layers = AsTuple([i \in DOMAIN g.layers |->
                             IF i = 1 THEN InitBlock(g.layers[i])
                                      ELSE InitModule(g.layers[i])])]

InitStage(st) ==
    IF st.kind = "DepthWise" THEN InitDepthWise(st)
    ELSE IF st.kind = "Residual" THEN InitResidual(st)
    ELSE IF st.kind = "GDC" THEN InitGDC(st)
    ELSE InitBlock(st)

\* _initialize_weights run before self.features is assigned
InitializeWeightsEarly(m) ==
    [m EXCEPT !.layers = AsTuple([i \in DOMAIN m.layers |-> InitStage(m.layers[i])]),
              !.conv_sep = InitStage(m.conv_sep),
              !.init_calls = @ + 1]

\* the model as a record of the attributes __init__ assigns
InitializeWeights(m) ==
    [m EXCEPT !.layers = AsTuple([i \in DOMAIN m.layers |-> InitStage(m.layers[i])]),
              !.conv_sep = InitStage(m.conv_sep),
              !.features = InitStage(m.features),
              !.init_calls = @ + 1]

MobileFaceNet2(a) ==
    InitializeWeights(
        [scale |-> a.scale, fp16 |-> a.fp16,
         layers |-> BuildLayers(a.blocks, a.scale),
         conv_sep |-> ConvSep(a.scale),
         features |-> GDC(a.num_features),
         init_calls |-> 0])

\* get_mbf2 and get_mbf2_large with their default blocks and scale
get_mbf2(f, num_features) ==
    [fp16 |-> f, num_features |-> num_features, blocks |-> <<1, 4, 6, 2>>, scale |-> 2]

get_mbf2_large(f, num_features) ==
    [fp16 |-> f, num_features |-> num_features, blocks |-> <<2, 8, 12, 4>>, scale |-> 4]

(***************************************************************************)
(* Tensors are modelled by shape and dtype.  A module's forward maps a     *)
(* result to a result: once a layer has raised, the exception propagates.  *)
(***************************************************************************)
Tensor(shape, dtype) == [shape |-> shape, dtype |-> dtype]

Ok(t) == [ok |-> TRUE, t |-> t, err |-> "none"]

Raise(t, err) == [ok |-> FALSE, t |-> t, err |-> err]

RECURSIVE Prod(_)
Prod(s) == IF Len(s) = 0 THEN 1 ELSE Head(s) * Prod(Tail(s))

Max(a, b) == IF a >= b THEN a ELSE b

\* the output size rounded up instead of down
ConvOutCeil(h, k, s, p) == ((h + 2 * p - k + s - 1) \div s) + 1

\* the output size of a convolution along one dimension
ConvOut(h, k, s, p) == ((h + 2 * p - k) \div s) + 1

\* what an operation listed for autocast-to-half returns
OpDtype(dtype, ac) == IF ac THEN "float16" ELSE dtype

\* torch's type promotion, for the two floating types that occur
Promote(d1, d2) == IF d1 = "float32" \/ d2 = "float32" THEN "float32" ELSE "float16"

\* F.conv2d; the weight is float32, so outside autocast the input must be too
Conv2dForward(m, t, ac) ==
    LET s == t.shape IN
    IF Len(s) # 4 \/ s[2] # m.in_c THEN Raise(t, "shape")
    ELSE IF ~ac /\ t.dtype # "float32" THEN Raise(t, "dtype")
    ELSE IF s[3] + 2 * m.padding[1] < m.kernel[1] \/ s[4] + 2 * m.padding[2] < m.kernel[2]
    THEN Raise(t, "kernel")
    ELSE Ok(Tensor(<< s[1], m.out_c,
                      ConvOut(s[3], m.kernel[1], m.stride[1], m.padding[1]),
                      ConvOut(s[4], m.kernel[2], m.stride[2], m.padding[2]) >>,
                   OpDtype(t.dtype, ac)))

\* F.batch_norm: in training mode it needs more than one value per channel
BatchNormForward(m, t, tr) ==
    LET s == t.shape IN
    IF Len(s) < 2 \/ s[2] # m.in_c THEN Raise(t, "shape")
    ELSE IF tr /\ s[1] * Prod(SubSeq(s, 3, Len(s))) = 1 THEN Raise(t, "batch")
    ELSE Ok(t)

PReLUForward(m, t, ac) ==
    LET s == t.shape IN
    IF Len(s) < 2 \/ (m.in_c # 1 /\ s[2] # m.in_c) THEN Raise(t, "shape")
    ELSE IF ~ac /\ t.dtype # "float32" THEN Raise(t, "dtype")
    ELSE Ok(Tensor(s, OpDtype(t.dtype, ac)))

AdaptiveAvgPool2dForward(m, t) ==
    LET s == t.shape IN
    IF Len(s) # 4 THEN Raise(t, "shape")
    ELSE Ok(Tensor(<< s[1], s[2], m.kernel[1], m.kernel[2] >>, t.dtype))

\* x.view(x.size(0), -1)
FlattenForward(t) ==
    LET s == t.shape IN
    Ok(Tensor(<< s[1], Prod(Tail(s)) >>, t.dtype))

LinearForward(m, t, ac) ==
    LET s == t.shape IN
    IF s[Len(s)] # m.in_c THEN Raise(t, "shape")
    ELSE IF ~ac /\ t.dtype # "float32" THEN Raise(t, "dtype")
    ELSE Ok(Tensor([s EXCEPT ![Len(s)] = m.out_c], OpDtype(t.dtype, ac)))

ModuleForward(m, r, ac, tr) ==
    IF ~r.ok THEN r
    ELSE IF m.type = "Conv2d" THEN Conv2dForward(m, r.t, ac)
    ELSE IF m.type \in {"BatchNorm2d", "BatchNorm1d"} THEN BatchNormForward(m, r.t, tr)
    ELSE IF m.type = "PReLU" THEN PReLUForward(m, r.t, ac)
    ELSE IF m.type = "AdaptiveAvgPool2d" THEN AdaptiveAvgPool2dForward(m, r.t)
    ELSE IF m.type = "Flatten" THEN FlattenForward(r.t)
    ELSE IF m.type = "Linear" THEN LinearForward(m, r.t, ac)
    ELSE r        \* HSwish, Sigmoid: elementwise, shape and dtype kept

\* nn.Sequential over leaf modules
RECURSIVE SequentialForward(_, _, _, _)
SequentialForward(ms, r, ac, tr) ==
    IF Len(ms) = 0 THEN r
    ELSE SequentialForward(Tail(ms), ModuleForward(Head(ms), r, ac, tr), ac, tr)

\* ConvBlock.forward and LinearBlock.forward
BlockForward(b, r, ac, tr) == SequentialForward(b.layers, r, ac, tr)

\* a + b with broadcasting, for tensors of equal rank
Add(a, b) ==
    LET sa == a.shape
        sb == b.shape
    IN  IF Len(sa) # Len(sb) \/
           \E i \in DOMAIN sa : sa[i] # sb[i] /\ sa[i] # 1 /\ sb[i] # 1
        THEN Raise(a, "shape")
        ELSE Ok(Tensor(AsTuple([i \in DOMAIN sa |-> Max(sa[i], sb[i])]),
                       Promote(a.dtype, b.dtype)))

\* y.view(y.shape[0], -1, 1, 1)
View11(t) == Tensor(<< t.shape[1], Prod(Tail(t.shape)), 1, 1 >>, t.dtype)

ECAForward(b, r, ac, tr) ==
    IF ~r.ok THEN r
    ELSE LET short_cut == r.t
             y == SequentialForward(b.layers, r, ac, tr)
         IN  IF ~y.ok THEN y ELSE Add(View11(y.t), short_cut)

RECURSIVE BlocksForward(_, _, _, _)
BlocksForward(bs, r, ac, tr) ==
    IF Len(bs) = 0 THEN r
    ELSE BlocksForward(Tail(bs), BlockForward(Head(bs), r, ac, tr), ac, tr)

DepthWiseForward(d, r, ac, tr) ==
    IF ~r.ok THEN r
    ELSE LET short_cut == r.t
             y == BlocksForward(d.layers, r, ac, tr)
         IN  IF ~y.ok THEN y
             ELSE IF d.residual THEN Add(short_cut, y.t)
             ELSE y

RECURSIVE ResidualForward(_, _, _, _)
ResidualForward(ds, r, ac, tr) ==
    IF Len(ds) = 0 THEN r
    ELSE ResidualForward(Tail(ds), DepthWiseForward(Head(ds), r, ac, tr), ac, tr)

GDCForward(g, r, ac, tr) ==
    SequentialForward(Tail(g.layers), BlockForward(Head(g.layers), r, ac, tr), ac, tr)

StageForward(st, r, ac, tr) ==
    IF st.kind = "ECA" THEN ECAForward(st, r, ac, tr)
    ELSE IF st.kind = "DepthWise" THEN DepthWiseForward(st, r, ac, tr)
    ELSE IF st.kind = "Residual" THEN ResidualForward(st.layers, r, ac, tr)
    ELSE IF st.kind = "GDC" THEN GDCForward(st, r, ac, tr)
    ELSE BlockForward(st, r, ac, tr)

(***************************************************************************)
(* MobileFaceNet2.forward.  A call is modelled by the list of stage        *)
(* invocations it makes: which stage, under which autocast state, on which *)
(* tensor, with which outcome.  A stage that raises ends the call.         *)
(***************************************************************************)
Step(attr, index, kind, ac, in, out) ==
    [attr |-> attr, index |-> index, kind |-> kind, autocast |-> ac, in |-> in, out |-> out]

\* the loop taking every other stage
RECURSIVE LayersLoopSkip(_, _, _, _, _, _)
LayersLoopSkip(ls, i, r, ac, tr, tc) ==
    IF i > Len(ls) \/ ~r.ok THEN [r |-> r, trace |-> tc]
    ELSE LET out == StageForward(ls[i], r, ac, tr)
         IN  LayersLoopSkip(ls, i + 2, out, ac, tr,
                            Append(tc, Step("layers", i, ls[i].kind, ac, r.t, out)))

\* for func in self.layers: x = func(x)
RECURSIVE LayersLoop(_, _, _, _, _, _)
LayersLoop(ls, i, r, ac, tr, tc) ==
    IF i > Len(ls) \/ ~r.ok THEN [r |-> r, trace |-> tc]
    ELSE LET out == StageForward(ls[i], r, ac, tr)
         IN  LayersLoop(ls, i + 1, out, ac, tr,
                        Append(tc, Step("layers", i, ls[i].kind, ac, r.t, out)))

\* no cast after the autocast region
CastNone(f, t) == t

\* x.float() if self.fp16 else x
Cast(f, t) == IF f THEN Tensor(t.shape, "float32") ELSE t

\* m: the model, t: the input, ac0: the autocast state of the caller, which
\* the with statement restores on exit
Forward(m, t, ac0, tr) ==
    LET body == LayersLoop(m.layers, 1, Ok(t), m.fp16, tr, <<>>)
    IN  IF ~body.r.ok THEN body
        ELSE LET c == Cast(m.fp16, body.r.t)
                 sep == StageForward(m.conv_sep, Ok(c), ac0, tr)
                 tc1 == Append(body.trace,
                               Step("conv_sep", 0, m.conv_sep.kind, ac0, c, sep))
             IN  IF ~sep.ok THEN [r |-> sep, trace |-> tc1]
                 ELSE LET out == StageForward(m.features, sep, ac0, tr)
                      IN  [r |-> out,
                           trace |-> Append(tc1, Step("features", 0, m.features.kind,
                                                      ac0, sep.t, out))]

\* whether a training-mode call updates the stem BatchNorm2d's running statistics
StemBatchNormRuns(m, t, tr) ==
    tr /\ SequentialForward(SubSeq(m.layers[1].layers, 1, 2), Ok(t), m.fp16, tr).ok

(***************************************************************************)
(* self.modules(): the leaf modules of the model in registration order,    *)
(* and the DepthWise blocks among its stages.                              *)
(***************************************************************************)
DepthWiseModules(d) == d.layers[1].layers \o d.layers[2].layers \o d.layers[3].layers

RECURSIVE ResidualModules(_)
ResidualModules(ds) ==
    IF Len(ds) = 0 THEN <<>> ELSE DepthWiseModules(Head(ds)) \o ResidualModules(Tail(ds))

StageModules(st) ==
    IF st.kind = "DepthWise" THEN DepthWiseModules(st)
    ELSE IF st.kind = "Residual" THEN ResidualModules(st.layers)
    ELSE IF st.kind = "GDC" THEN Head(st.layers).layers \o Tail(st.layers)
    ELSE st.layers

RECURSIVE StagesModules(_)
StagesModules(ls) ==
    IF Len(ls) = 0 THEN <<>> ELSE StageModules(Head(ls)) \o StagesModules(Tail(ls))

Modules(m) ==
    StagesModules(m.layers) \o StageModules(m.conv_sep) \o StageModules(m.features)

RECURSIVE DepthWiseBlocks(_)
DepthWiseBlocks(ls) ==
    IF Len(ls) = 0 THEN <<>>
    ELSE (IF Head(ls).kind = "DepthWise" THEN << Head(ls) >>
          ELSE IF Head(ls).kind = "Residual" THEN Head(ls).layers
          ELSE <<>>) \o DepthWiseBlocks(Tail(ls))

(***************************************************************************)
(* ECA.forward on numbers.  Reals are fixed-point integers: v stands for   *)
(* v / Unit.  x[n][c][i][j] is one element of the input.                   *)
(***************************************************************************)
Unit == 4             \* the fixed-point unit
MaxElems == 4         \* an ECA input has at most MaxElems elements

RECURSIVE SumSeq(_)
SumSeq(s) == IF Len(s) = 0 THEN 0 ELSE Head(s) + SumSeq(Tail(s))

\* AdaptiveAvgPool2d((1, 1)) then Flatten: the mean of each channel of each image
AvgPool(t) ==
    [n \in DOMAIN t |-> [c \in DOMAIN t[n] |->
        SumSeq([i \in DOMAIN t[n][c] |-> SumSeq(t[n][c][i])])
            \div (Len(t[n][c]) * Len(t[n][c][1]))]]

\* Linear(in_c, in_c, bias=True)
LinearApply(w, b, v) ==
    [n \in DOMAIN v |-> [o \in DOMAIN w |->
        (SumSeq([j \in DOMAIN v[n] |-> w[o][j] * v[n][j]]) \div Unit) + b[o]]]

\* Sigmoid, by its tangent at 0 clipped to [0, 1]
SigmoidApply(v) ==
    [n \in DOMAIN v |-> [c \in DOMAIN v[n] |->
        LET z == (Unit \div 2) + (v[n][c] \div 4)
        IN  IF z < 0 THEN 0 ELSE IF z > Unit THEN Unit ELSE z]]

\* self.layers(x): one number per image and channel
ECAGate(w, b, t) == SigmoidApply(LinearApply(w, b, AvgPool(t)))

\* y.view(y.shape[0], -1, 1, 1) + short_cut
ECACombine(y, short_cut) ==
    [n \in DOMAIN short_cut |-> [c \in DOMAIN short_cut[n] |->
        [i \in DOMAIN short_cut[n][c] |-> [j \in DOMAIN short_cut[n][c][i] |->
            y[n][c] + short_cut[n][c][i][j]]]]]

ECAValues(w, b, t) == ECACombine(ECAGate(w, b, t), t)

(***************************************************************************)
(* The inputs the model draws from.                                        *)
(***************************************************************************)
BlockCounts ==
    { <<b0, b1, b2, b3>> : b0 \in 0..MaxBlock0, b1 \in 0..MaxBlock,
                           b2 \in 0..MaxBlock, b3 \in 0..MaxBlock }

Shipped == { get_mbf2(f, 512) : f \in BOOLEAN } \cup { get_mbf2_large(f, 512) : f \in BOOLEAN }

Configs ==
    [fp16 : BOOLEAN, num_features : 1..MaxFeatures, blocks : BlockCounts,
     scale : 1..MaxScale] \cup Shipped

\* a float32 batch of N three-channel images of H x W pixels
Image(n, h, w) == Tensor(<<n, 3, h, w>>, "float32")

Inputs == { Image(n, hw, hw) : n \in 1..MaxBatch, hw \in {1, 64, 112} }

Sizes == (1..SmallSize) \cup ((MaxSize - SizeSpan)..MaxSize)

WideInputs == { Image(n, h, w) : n \in 1..MaxBatch, h \in Sizes, w \in Sizes }

\* the settings forward is called under: three block settings, the smallest and
\* the largest scale and embedding size, and get_mbf2's defaults
CallConfigs ==
    [fp16 : BOOLEAN, num_features : {1, MaxFeatures},
     blocks : {<<0, 0, 0, 0>>, <<1, 1, 0, 1>>, <<2, 0, 1, 0>>},
     scale : {1, MaxScale}] \cup { get_mbf2(f, 512) : f \in BOOLEAN }

\* the settings forward is called under on images of every size
ShapeConfigs ==
    { c \in CallConfigs : /\ c.blocks # <<0, 0, 0, 0>>
                          /\ c.fp16 = (c.scale = 1)
                          /\ (c.num_features = 1) = (c.scale = 1) }

ECAShapes ==
    { s \in (1..MaxElems) \X (1..MaxElems) \X (1..MaxElems) \X (1..MaxElems) :
        s[1] * s[2] * s[3] * s[4] <= MaxElems }

ECAInputs(s) == [1..s[1] -> [1..s[2] -> [1..s[3] -> [1..s[4] -> {-Unit, 0, Unit}]]]]

\* Linear weights: zero, identity, all ones, minus identity
ECAWeights(c) ==
    { [o \in 1..c |-> [j \in 1..c |-> 0]],
      [o \in 1..c |-> [j \in 1..c |-> IF o = j THEN Unit ELSE 0]],
      [o \in 1..c |-> [j \in 1..c |-> Unit]],
      [o \in 1..c |-> [j \in 1..c |-> IF o = j THEN -Unit ELSE 0]] }

ECABiases(c) == { [o \in 1..c |-> v] : v \in {0, Unit} }

(***************************************************************************)
(* The state machine.                                                      *)
(***************************************************************************)
NoTensor == Tensor(<<>>, "none")

NoResult == Raise(NoTensor, "not called")

NoArgs == [fp16 |-> FALSE, num_features |-> 0, blocks |-> <<>>, scale |-> 0]

NoModule == [kind |-> "none", layers |-> <<>>]

NoECA == [done |-> FALSE, weight |-> <<>>, bias |-> <<>>, x |-> <<>>, y |-> <<>>, out |-> <<>>]

\* the model object as a record
Self ==
    [scale |-> scale, fp16 |-> fp16, layers |-> layers, conv_sep |-> conv_sep,
     features |-> features, init_calls |-> init_calls]

Built(a) ==
    LET m == MobileFaceNet2(a)
    IN  /\ args' = a
        /\ fp16' = m.fp16
        /\ scale' = m.scale
        /\ layers' = m.layers
        /\ conv_sep' = m.conv_sep
        /\ features' = m.features
        /\ init_calls' = m.init_calls

Init ==
    /\ state = "new"
    /\ args = NoArgs
    /\ fp16 = FALSE
    /\ scale = 0
    /\ layers = <<>>
    /\ conv_sep = NoModule
    /\ features = NoModule
    /\ init_calls = 0
    /\ training = TRUE
    /\ autocast = FALSE
    /\ num_batches_tracked = 0
    /\ x = NoTensor
    /\ trace = <<>>
    /\ result = NoResult
    /\ eca = NoECA

\* MobileFaceNet2(fp16, num_features, blocks, scale), the arguments drawn from S
ConstructFrom(S) ==
    /\ state = "new"
    /\ \E a \in S : Built(a)
    /\ state' = "built"
    /\ training' = TRUE
    /\ UNCHANGED <<autocast, num_batches_tracked, x, trace, result, eca>>

Construct == ConstructFrom(CallConfigs)

\* a forward that runs _initialize_weights again
CallReinit(t) ==
    LET f == Forward(Self, t, autocast, training)
        m == InitializeWeights(Self)
    IN  /\ x' = t
        /\ trace' = f.trace
        /\ result' = f.r
        /\ layers' = m.layers
        /\ conv_sep' = m.conv_sep
        /\ features' = m.features
        /\ init_calls' = m.init_calls
        /\ num_batches_tracked' =
              IF StemBatchNormRuns(Self, t, training)
              THEN num_batches_tracked + 1 ELSE num_batches_tracked
        /\ UNCHANGED <<state, args, fp16, scale, training, autocast, eca>>

\* model(t): forward on the input t
Call(t) ==
    LET f == Forward(Self, t, autocast, training)
    IN  /\ x' = t
        /\ trace' = f.trace
        /\ result' = f.r
        /\ num_batches_tracked' =
              IF StemBatchNormRuns(Self, t, training)
              THEN num_batches_tracked + 1 ELSE num_batches_tracked
        /\ UNCHANGED <<state, args, fp16, scale, layers, conv_sep, features, init_calls,
                       training, autocast, eca>>

ForwardCall ==
    /\ state = "built"
    /\ num_batches_tracked < MaxTracked
    /\ \E t \in Inputs : Call(t)

\* Module.train()
Train ==
    /\ state = "built"
    /\ ~training
    /\ training' = TRUE
    /\ UNCHANGED <<state, args, fp16, scale, layers, conv_sep, features, init_calls,
                   autocast, num_batches_tracked, x, trace, result, eca>>

\* Module.eval()
Eval ==
    /\ state = "built"
    /\ training
    /\ training' = FALSE
    /\ UNCHANGED <<state, args, fp16, scale, layers, conv_sep, features, init_calls,
                   autocast, num_batches_tracked, x, trace, result, eca>>

Next == Construct \/ ForwardCall \/ Train \/ Eval

Spec == Init /\ [][Next]_vars

(***************************************************************************)
(* SpecGraph: construction alone, over every setting of the arguments.     *)
(***************************************************************************)
ConstructAny == ConstructFrom(Configs)

NextGraph == ConstructAny \/ Train \/ Eval

SpecGraph == Init /\ [][NextGraph]_vars

(***************************************************************************)
(* SpecShapes: forward as a function of the input's size.  The model is    *)
(* constructed, in either mode, and x is the batch it is about to be       *)
(* called on.                                                              *)
(***************************************************************************)
InitShapes ==
    /\ state = "built"
    /\ \E a \in ShapeConfigs :
          LET m == MobileFaceNet2(a)
          IN  /\ args = a
              /\ fp16 = m.fp16
              /\ scale = m.scale
              /\ layers = m.layers
              /\ conv_sep = m.conv_sep
              /\ features = m.features
              /\ init_calls = m.init_calls
    /\ training \in BOOLEAN
    /\ autocast = FALSE
    /\ num_batches_tracked = 0
    /\ x \in WideInputs
    /\ trace = <<>>
    /\ result = NoResult
    /\ eca = NoECA

ForwardPending ==
    /\ state = "built"
    /\ result = NoResult
    /\ Call(x)

NextShapes == ForwardPending

SpecShapes == InitShapes /\ [][NextShapes]_vars

(***************************************************************************)
(* SpecECA: ECA.forward on numbers.                                        *)
(***************************************************************************)
InitECA ==
    /\ state = "new"
    /\ args = NoArgs
    /\ fp16 = FALSE
    /\ scale = 0
    /\ layers = <<>>
    /\ conv_sep = NoModule
    /\ features = NoModule
    /\ init_calls = 0
    /\ training = TRUE
    /\ autocast = FALSE
    /\ num_batches_tracked = 0
    /\ x = NoTensor
    /\ trace = <<>>
    /\ result = NoResult
    /\ \E s \in ECAShapes :
          \E t \in ECAInputs(s), w \in ECAWeights(s[2]), b \in ECABiases(s[2]) :
             eca = [done |-> FALSE, weight |-> w, bias |-> b, x |-> t,
                    y |-> <<>>, out |-> <<>>]

ECACall ==
    /\ ~eca.done
    /\ eca.x # <<>>
    /\ eca' = [eca EXCEPT !.done = TRUE,
                          !.y = ECAGate(eca.weight, eca.bias, eca.x),
                          !.out = ECAValues(eca.weight, eca.bias, eca.x)]
    /\ UNCHANGED <<state, args, fp16, scale, layers, conv_sep, features, init_calls,
                   training, autocast, num_batches_tracked, x, trace, result>>

NextECA == ECACall

SpecECA == InitECA /\ [][NextECA]_vars

(***************************************************************************)
(* Properties.                                                             *)
(***************************************************************************)
ModuleSet(m) == { Modules(m)[i] : i \in DOMAIN Modules(m) }

\* the channel count a stage's first convolution or linear layer expects;
\* 0 for a Residual of no blocks, which has no layer
ExpectedChannels(st) ==
    IF st.kind = "ECA" THEN st.layers[3].in_c
    ELSE IF st.kind = "DepthWise" THEN st.layers[1].layers[1].in_c
    ELSE IF st.kind = "Residual"
    THEN (IF Len(st.layers) = 0 THEN 0 ELSE st.layers[1].layers[1].layers[1].in_c)
    ELSE IF st.kind = "GDC" THEN st.layers[1].layers[1].in_c
    ELSE st.layers[1].in_c

StageAt(i) == IF i <= 10 THEN layers[i] ELSE IF i = 11 THEN conv_sep ELSE features

\* forward on n images of 112 x 112 pixels, with the model in eval mode
Probe(n) == Forward(Self, Image(n, 112, 112), autocast, FALSE)

\* the tensor entering the head's Linear layer, for the head's input t
HeadFlattened(t) ==
    SequentialForward(<< features.layers[2] >>,
                      BlockForward(features.layers[1], Ok(t), FALSE, FALSE), FALSE, FALSE)

GroupsDivide(m) ==
    m.type = "Conv2d" =>
        m.groups >= 1 /\ m.in_c % m.groups = 0 /\ m.out_c % m.groups = 0

ProbeComposes(n) ==
    LET f == Probe(n)
    IN  /\ f.r.ok
        /\ Len(f.trace) = 12
        /\ \A i \in 1..12 :
              /\ f.trace[i].out.ok
              /\ ExpectedChannels(StageAt(i)) \in {0, f.trace[i].in.shape[2]}
              /\ i < 12 => f.trace[i + 1].in.shape = f.trace[i].out.t.shape
        /\ HeadFlattened(f.trace[12].in).ok
        /\ HeadFlattened(f.trace[12].in).t.shape = <<n, 512>>

\* C2: for every setting of the arguments, the shipped ones included, and a
\* batch of 112 x 112 images, the shapes compose at every stage boundary: each
\* stage receives the channel count its first convolution or linear layer
\* expects, the group count of every convolution divides its input and output
\* channel counts, no addition in DepthWise or ECA meets incompatible shapes
\* (no stage raises), and the tensor entering the head's Linear is (N, 512).
C2_ShapesCompose ==
    state = "built" =>
        /\ \A m \in ModuleSet(Self) : GroupsDivide(m)
        /\ \A n \in 1..MaxBatch : ProbeComposes(n)

C2_Witness ==
    /\ state = "built"
    /\ args = get_mbf2_large(TRUE, 512)
    /\ ProbeComposes(1)

\* the three convolutions of a DepthWise block
Conv1(d) == d.layers[1].layers[1]

Conv2(d) == d.layers[2].layers[1]

Conv3(d) == d.layers[3].layers[1]

Pointwise(c) ==
    c.kernel = <<1, 1>> /\ c.stride = <<1, 1>> /\ c.padding = <<0, 0>> /\ c.groups = 1

Separable(d) ==
    /\ Len(d.layers) = 3
    /\ Pointwise(Conv1(d))
    /\ Conv2(d).groups = Conv1(d).out_c
    /\ Conv2(d).in_c = Conv2(d).groups
    /\ Conv2(d).out_c = Conv2(d).groups
    /\ Conv2(d).kernel = <<3, 3>>
    /\ Conv2(d).padding = <<1, 1>>
    /\ Conv2(d).stride = IF d.residual THEN <<1, 1>> ELSE <<2, 2>>
    /\ Pointwise(Conv3(d))
    /\ Conv3(d).in_c = Conv2(d).out_c
    /\ d.layers[3].kind = "LinearBlock"
    /\ Len(d.layers[3].layers) = 2

\* the shortcut of a residual block adds two tensors of one shape
ShortcutFits(d) ==
    LET t == Tensor(<<2, Conv1(d).in_c, 5, 7>>, "float32")
        y == BlocksForward(d.layers, Ok(t), FALSE, FALSE)
    IN  /\ Conv1(d).in_c = Conv3(d).out_c
        /\ Conv2(d).stride = <<1, 1>>
        /\ y.ok
        /\ y.t.shape = t.shape

InResidual(d) == \E i \in DOMAIN layers :
    layers[i].kind = "Residual" /\ \E j \in DOMAIN layers[i].layers : layers[i].layers[j] = d

\* C8: every DepthWise block is a 1x1 convolution to `groups` channels, a
\* convolution with one filter per channel carrying the kernel, stride and
\* padding, and a 1x1 convolution to out_c without activation; the blocks with
\* residual=True are exactly those of the Residual stages, and each has
\* in_c = out_c and stride (1,1), so that its shortcut adds equal shapes.
C8_DepthwiseSeparable ==
    state = "built" =>
        \A i \in DOMAIN DepthWiseBlocks(layers) :
            LET d == DepthWiseBlocks(layers)[i]
            IN  /\ Separable(d)
                /\ d.residual = InResidual(d)
                /\ d.residual => ShortcutFits(d)

C8_Witness ==
    /\ state = "built"
    /\ args.blocks[3] = 1
    /\ Len(layers[7].layers) = 1
    /\ layers[7].layers[1].residual
    /\ ShortcutFits(layers[7].layers[1])

KeepsShape(st, c) ==
    \A hw \in {1, 56} :
        LET t == Tensor(<<2, c, hw, hw>>, "float32")
        IN  StageForward(st, Ok(t), FALSE, FALSE) = Ok(t)

\* C10: self.layers[1] is a 3x3, stride-1, groups=64 ConvBlock when
\* blocks[0] = 1 and otherwise a Residual of blocks[0] residual DepthWise blocks
\* of width 128; it maps 64*scale channels to 64*scale channels at unchanged
\* size; self.layers has 10 entries and the model
\* 3 + blocks[1] + blocks[2] + blocks[3] DepthWise blocks, plus blocks[0]
\* when blocks[0] # 1.
C10_FirstStage ==
    state = "built" =>
        /\ Len(layers) = 10
        /\ IF args.blocks[1] = 1
           THEN /\ layers[2].kind = "ConvBlock"
                /\ layers[2].layers[1].kernel = <<3, 3>>
                /\ layers[2].layers[1].stride = <<1, 1>>
                /\ layers[2].layers[1].groups = 64
           ELSE /\ layers[2].kind = "Residual"
                /\ Len(layers[2].layers) = args.blocks[1]
                /\ \A j \in DOMAIN layers[2].layers :
                      /\ layers[2].layers[j].residual
                      /\ Conv2(layers[2].layers[j]).groups = 128
        /\ KeepsShape(layers[2], 64 * args.scale)
        /\ Len(DepthWiseBlocks(layers)) =
              3 + args.blocks[2] + args.blocks[3] + args.blocks[4]
                + (IF args.blocks[1] # 1 THEN args.blocks[1] ELSE 0)

C10_Witness ==
    /\ state = "built"
    /\ args.blocks[1] = 0
    /\ layers[2].kind = "Residual"
    /\ Len(layers[2].layers) = 0

\* what _initialize_weights leaves in a module of each type
PolicyApplied(m) ==
    IF m.type \in {"Conv2d", "Linear"}
    THEN m.weight = "kaiming_normal_fan_out" /\ m.bias \in {"none", "zeros"}
    ELSE IF m.type = "BatchNorm2d" THEN m.weight = "ones" /\ m.bias = "zeros"
    ELSE IF m.type = "PReLU" THEN m.weight = "default" /\ m.bias = "none"
    ELSE IF m.type = "BatchNorm1d" THEN m.weight = "default" /\ m.bias = "default"
    ELSE m.weight = "none" /\ m.bias = "none"

\* C3 as amended: _initialize_weights runs once per model, after the whole
\* graph is in place, visits every layer module once and applies a rule that
\* depends on the layer's type alone: Conv2d and Linear weights are drawn
\* kaiming-normal and their biases zeroed, BatchNorm2d is set to scale 1 and
\* shift 0; PReLU slopes and the head's BatchNorm1d keep what their own
\* constructors gave them.
C3_InitializedOnce ==
    state = "built" =>
        /\ init_calls = 1
        /\ \A m \in ModuleSet(Self) : m.visits = 1 /\ PolicyApplied(m)

C3_Witness ==
    /\ state = "built"
    /\ result.ok
    /\ layers[1].layers[3].type = "PReLU"
    /\ layers[1].layers[3].visits = 1
    /\ layers[1].layers[3].weight = "default"

\* C3 as stated: every learned parameter, PReLU slopes included, is set by
\* _initialize_weights.
C3_AsStated ==
    state = "built" =>
        /\ init_calls = 1
        /\ \A m \in ModuleSet(Self) :
              m.visits = 1 /\ m.weight # "default" /\ m.bias # "default"

\* the stage forward invokes i-th
AttrAt(i) == IF i <= 10 THEN "layers" ELSE IF i = 11 THEN "conv_sep" ELSE "features"

IndexAt(i) == IF i <= 10 THEN i ELSE 0

KindAt(i) ==
    IF i \in {1, 11} THEN "ConvBlock"
    ELSE IF i = 2 THEN (IF args.blocks[1] = 1 THEN "ConvBlock" ELSE "Residual")
    ELSE IF i \in {3, 10} THEN "ECA"
    ELSE IF i \in {4, 6, 8} THEN "DepthWise"
    ELSE IF i \in {5, 7, 9} THEN "Residual"
    ELSE "GDC"

Called == result # NoResult

\* C4: once the model is constructed no step, forward calls in either mode
\* included, changes the layer graph (self.layers, conv_sep, features and the
\* attributes fp16 and scale) or a parameter, nor runs _initialize_weights.
C4_ForwardFrame ==
    [][state = "built" =>
          /\ state' = "built"
          /\ layers' = layers
          /\ conv_sep' = conv_sep
          /\ features' = features
          /\ fp16' = fp16
          /\ scale' = scale
          /\ init_calls' = init_calls]_vars

C4_Witness ==
    /\ Called
    /\ result.ok
    /\ num_batches_tracked = 2
    /\ ~training

\* C6: a call invokes the stages in the order self.layers[0..9], conv_sep,
\* features, each once and each on the tensor the stage before it returned; a
\* call that returns has invoked all twelve, and a call ends early only at a
\* stage that raised.
C6_StageOrder ==
    Called =>
        /\ Len(trace) \in 1..12
        /\ trace[1].in = x
        /\ result = trace[Len(trace)].out
        /\ result.ok => Len(trace) = 12
        /\ \A i \in DOMAIN trace :
              /\ trace[i].attr = AttrAt(i)
              /\ trace[i].index = IndexAt(i)
              /\ trace[i].kind = KindAt(i)
              /\ i < Len(trace) => trace[i].out.ok
              /\ i < Len(trace) => trace[i + 1].in.shape = trace[i].out.t.shape

C6_Witness ==
    /\ Called
    /\ result.ok
    /\ Len(trace) = 12
    /\ trace[12].attr = "features"
    /\ args.blocks[1] = 2

\* C7: the ten stages of self.layers run with autocast enabled exactly when
\* fp16 is set, and then return float16; conv_sep and the head run with
\* autocast disabled on a float32 tensor and return float32.  The tensor is
\* cast to float32 before conv_sep when fp16 is set and passed on as it is
\* when not.
C7_Precision ==
    Called =>
        /\ \A i \in DOMAIN trace :
              IF trace[i].attr = "layers"
              THEN /\ trace[i].autocast = fp16
                   /\ trace[i].out.ok =>
                         trace[i].out.t.dtype = IF fp16 THEN "float16" ELSE "float32"
              ELSE /\ ~trace[i].autocast
                   /\ trace[i].in.dtype = "float32"
                   /\ trace[i].out.ok => trace[i].out.t.dtype = "float32"
        /\ Len(trace) >= 11 =>
              IF fp16
              THEN trace[11].in = Tensor(trace[10].out.t.shape, "float32")
              ELSE trace[11].in = trace[10].out.t

C7_Witness ==
    /\ Called
    /\ result.ok
    /\ fp16
    /\ trace[10].out.t.dtype = "float16"
    /\ trace[11].in.dtype = "float32"

InRange(v) == v \in 97..112

BatchFits == training => x.shape[1] >= 2

\* C1 as amended: for float32 batches whose height and width lie in 97..112,
\* with the model in eval mode or at least two images in the batch, forward
\* returns a tensor of shape (N, num_features), whatever the scale and blocks.
C1_Embedding ==
    (Called /\ InRange(x.shape[3]) /\ InRange(x.shape[4]) /\ BatchFits) =>
        /\ result.ok
        /\ result.t.shape = << x.shape[1], args.num_features >>

C1_Witness ==
    /\ Called
    /\ result.ok
    /\ x.shape = <<1, 3, 97, 112>>
    /\ ~training
    /\ result.t.shape = << 1, args.num_features >>

\* C1 as stated: forward returns (N, num_features) for every batch (N, 3, H, W).
C1_AsStated ==
    Called =>
        /\ result.ok
        /\ result.t.shape = << x.shape[1], args.num_features >>

Halve(h) == ((h - 1) \div 2) + 1

Reduced(h) == Halve(Halve(Halve(Halve(h))))

\* the output of the head's 7x7 convolution block for the head's input t
HeadConv(t) == BlockForward(features.layers[1], Ok(t), FALSE, FALSE)

C5_Reweights ==
    eca.done =>
        \A n \in DOMAIN eca.x : \A c \in DOMAIN eca.x[n] :
            \A i \in DOMAIN eca.x[n][c] : \A j \in DOMAIN eca.x[n][c][i] :
                eca.out[n][c][i][j] = (eca.y[n][c] * eca.x[n][c][i][j]) \div Unit

====
